---- MODULE Spec2Model ----
(***************************************************************************)
(* on-leads: the Notion record adapter (field formatting, property         *)
(* parsing, filter translation, queries) and the workflows built on it     *)
(* (crawl_and_store_contacts, draft_first_contact,                         *)
(* draft_all_first_contacts), as a state machine over the two Notion       *)
(* databases (leads, emails) and the running handler invocations.          *)
(***************************************************************************)
EXTENDS Integers, Sequences, FiniteSets, TLC

(***************************************************************************)
(* Bounds of the model.                                                    *)
(***************************************************************************)
MaxCalls == 2       \* handler invocations started in one behaviour
MaxFaults == 1      \* failed requests, failed generations and crashes in one behaviour
MaxLeads == 4       \* lead pages the leads database can hold
PageSize == 3       \* pages one databases.query response carries (Notion: 100)
MaxContacts == 2    \* contacts one crawl extracts
MaxOps == 3         \* calls made on the integrations on their own in one behaviour

\* Invocation p is the p-th handler the bot starts.
Procs == 1..MaxCalls

(***************************************************************************)
(* Python values.  A position that can hold values of several Python types *)
(* holds a tagged record; dicts are functions from key to value; lists at  *)
(* positions that always hold a list are sequences.                        *)
(***************************************************************************)
None == [k |-> "None"]
Str(s) == [k |-> "str", str |-> s]
Num(n) == [k |-> "int", int |-> n]
List(xs) == [k |-> "list", items |-> xs]

IsStr(v) == v.k = "str"
IsList(v) == v.k = "list"

\* Python truthiness of a value: None, "", 0 and [] are falsy.
Truthy(v) == v # None /\ v # Str("") /\ v # Num(0) /\ v # List(<<>>)

\* An exception that left a function, as a value.
Raised(type, msg) == [error |-> type, message |-> msg]
IsError(x) == "error" \in DOMAIN x
TypeError == Raised("TypeError", "argument of type 'NoneType' is not iterable")

\* str(value)
PyStr(v) == CASE v.k = "str" -> v
              [] v.k = "int" -> Str(ToString(v.int))
              [] v.k = "list" -> Str(IF v.items = <<>> THEN "[]" ELSE "[...]")
              [] OTHER -> Str("None")

\* int(value)
PyInt(v) == CASE v.k = "int" -> v
              [] OTHER -> Raised("ValueError", "invalid literal for int()")

\* d.get(key) == v
MapsTo(d, key, v) == key \in DOMAIN d /\ d[key] = v

(***************************************************************************)
(* Database kinds, schemas and the Notion property kind of each field.     *)
(***************************************************************************)
DatabaseType == {"leads", "emails"}

\* get_backend_schema(database_type, BackendType.NOTION)
get_backend_schema(database_type) ==
    IF database_type = "leads"
    THEN [ID |-> "unique_id", Name |-> "title", Email_Address |-> "email",
          Profile |-> "rich_text", Contact_Status |-> "select",
          Linkedin |-> "url", Company |-> "relation", Emails |-> "relation"]
    ELSE [Object |-> "title", Text |-> "rich_text", Type |-> "select",
          Recipient |-> "relation", Email_Status |-> "select"]

\* DATABASE_SCHEMAS[database_type]: the abstract type of each field
DATABASE_SCHEMAS(database_type) ==
    IF database_type = "leads"
    THEN [ID |-> "number", Name |-> "title", Email_Address |-> "email",
          Profile |-> "text", Contact_Status |-> "text",
          Linkedin |-> "url", Company |-> "relation", Emails |-> "relation"]
    ELSE [Object |-> "title", Text |-> "text", Type |-> "text",
          Recipient |-> "relation", Email_Status |-> "text"]

\* NotionIntegration.__init__
NotionIntegration(database_type) ==
    [database_id |-> database_type,
     schema |-> DATABASE_SCHEMAS(database_type),
     notion_mappings |-> get_backend_schema(database_type)]

leads_db == NotionIntegration("leads")
emails_db == NotionIntegration("emails")

\* FilterOperator values
EQUALS == "equals"
CONTAINS == "contains"
AND == "and"
OR == "or"

FieldFilter(field, operator, value) ==
    [field |-> field, operator |-> operator, value |-> value]
CompositeFilter(operator, filters) ==
    [operator |-> operator, filters |-> filters]
IsFieldFilter(f) == "field" \in DOMAIN f
IsCompositeFilter(f) == "filters" \in DOMAIN f

(***************************************************************************)
(* NotionIntegration.format_field                                          *)
(***************************************************************************)
\* The dispatch on the field's Notion kind, a list of references lost.
FormatByKindDropsList(notion_type, value) ==
    CASE notion_type = "title" ->
           IF Truthy(value) THEN [title |-> <<[text |-> [content |-> PyStr(value)]]>>] ELSE None
      [] notion_type = "email" -> [email |-> IF Truthy(value) THEN value ELSE None]
      [] notion_type = "rich_text" ->
           IF Truthy(value) THEN [rich_text |-> <<[text |-> [content |-> PyStr(value)]]>>] ELSE None
      [] notion_type = "select" ->
           IF Truthy(value) THEN [select |-> [name |-> PyStr(value)]] ELSE None
      [] notion_type = "url" -> [url |-> IF Truthy(value) THEN PyStr(value) ELSE None]
      [] notion_type = "relation" ->
           IF ~Truthy(value) THEN [relation |-> <<>>]
           ELSE IF IsList(value) THEN [relation |-> <<>>]
           ELSE [relation |-> <<[id |-> PyStr(value)]>>]
      [] notion_type = "number" ->
           IF ~Truthy(value) THEN None
           ELSE IF IsError(PyInt(value)) THEN PyInt(value)
           ELSE [number |-> PyInt(value)]
      [] OTHER -> None

\* The dispatch on the field's Notion kind.
FormatByKind(notion_type, value) ==
    CASE notion_type = "title" ->
           IF Truthy(value) THEN [title |-> <<[text |-> [content |-> PyStr(value)]]>>] ELSE None
      [] notion_type = "email" -> [email |-> IF Truthy(value) THEN value ELSE None]
      [] notion_type = "rich_text" ->
           IF Truthy(value) THEN [rich_text |-> <<[text |-> [content |-> PyStr(value)]]>>] ELSE None
      [] notion_type = "select" ->
           IF Truthy(value) THEN [select |-> [name |-> PyStr(value)]] ELSE None
      [] notion_type = "url" -> [url |-> IF Truthy(value) THEN PyStr(value) ELSE None]
      [] notion_type = "relation" ->
           IF ~Truthy(value) THEN [relation |-> <<>>]
           ELSE IF IsList(value) THEN [relation |-> value.items]
           ELSE [relation |-> <<[id |-> PyStr(value)]>>]
      [] notion_type = "number" ->
           IF ~Truthy(value) THEN None
           ELSE IF IsError(PyInt(value)) THEN PyInt(value)
           ELSE [number |-> PyInt(value)]
      [] OTHER -> None

format_field(self, field_name, value) ==
    IF value = None \/ value = Str("")
    THEN IF MapsTo(self.notion_mappings, field_name, "url") THEN [url |-> None] ELSE None
    ELSE IF field_name \notin DOMAIN self.schema THEN None
    ELSE FormatByKind(self.notion_mappings[field_name], value)

\* NotionIntegration._format_properties
_format_properties(self, data) ==
    [key \in {f \in DOMAIN data : format_field(self, f, data[f]) # None}
        |-> format_field(self, key, data[key])]

(***************************************************************************)
(* NotionIntegration._parse_property                                       *)
(***************************************************************************)
_parse_property(prop) ==
    IF prop = None THEN TypeError
    ELSE IF "title" \in DOMAIN prop
    THEN IF prop.title # <<>> THEN prop.title[1].text.content ELSE None
    ELSE IF "rich_text" \in DOMAIN prop
    THEN IF prop.rich_text # <<>> THEN prop.rich_text[1].text.content ELSE Str("")
    ELSE IF "select" \in DOMAIN prop
    THEN IF prop.select # None THEN prop.select.name ELSE None
    ELSE IF "email" \in DOMAIN prop THEN prop.email
    ELSE IF "url" \in DOMAIN prop THEN prop.url
    ELSE IF "relation" \in DOMAIN prop
    THEN List([i \in 1..Len(prop.relation) |-> [id |-> prop.relation[i].id]])
    ELSE IF "unique_id" \in DOMAIN prop
    THEN IF prop.unique_id # None THEN prop.unique_id.number ELSE None
    ELSE None

(***************************************************************************)
(* NotionIntegration._convert_filter                                       *)
(***************************************************************************)
\* The translation with the children of a composite in reverse order.
RECURSIVE ConvertFilterReversed(_, _)
ConvertFilterReversed(self, filter_) ==
    IF IsFieldFilter(filter_)
    THEN IF filter_.field \notin DOMAIN self.notion_mappings
         THEN Raised("ValueError", "Unknown field")
         ELSE LET field_type == self.notion_mappings[filter_.field]
              IN  ("property" :> Str(filter_.field))
                  @@ (field_type :> (filter_.operator :> filter_.value))
    ELSE LET n == Len(filter_.filters)
             children == [i \in 1..n |->
                            ConvertFilterReversed(self, filter_.filters[n + 1 - i])]
             failed == {i \in 1..n : IsError(children[i])}
         IN  IF failed # {}
             THEN children[CHOOSE i \in failed : \A j \in failed : i <= j]
             ELSE (filter_.operator :> children)

RECURSIVE _convert_filter(_, _)
_convert_filter(self, filter_) ==
    IF IsFieldFilter(filter_)
    THEN IF filter_.field \notin DOMAIN self.notion_mappings
         THEN Raised("ValueError", "Unknown field")
         ELSE LET field_type == self.notion_mappings[filter_.field]
              IN  ("property" :> Str(filter_.field))
                  @@ (field_type :> (filter_.operator :> filter_.value))
    ELSE IF IsCompositeFilter(filter_)
    THEN LET children == [i \in 1..Len(filter_.filters)
                            |-> _convert_filter(self, filter_.filters[i])]
             failed == {i \in 1..Len(children) : IsError(children[i])}
         IN  IF failed # {}
             THEN children[CHOOSE i \in failed : \A j \in failed : i <= j]
             ELSE (filter_.operator :> children)
    ELSE Raised("ValueError", "Invalid filter type")

(***************************************************************************)
(* The Notion service behind the client: pages.create, pages.update and    *)
(* databases.query on the pages of a database.                             *)
(***************************************************************************)
PagePrefix(db) == IF db = "leads" THEN "lead-" ELSE "email-"
PageId(db, n) == Str(PagePrefix(db) \o ToString(n))

\* The value Notion reports for a property no request has set.
EmptyProperty(notion_type) ==
    CASE notion_type = "title" -> [title |-> <<>>]
      [] notion_type = "rich_text" -> [rich_text |-> <<>>]
      [] notion_type = "select" -> [select |-> None]
      [] notion_type = "email" -> [email |-> None]
      [] notion_type = "url" -> [url |-> None]
      [] notion_type = "relation" -> [relation |-> <<>>]
      [] OTHER -> [unique_id |-> None]

\* client.pages.create: the new page, with a fresh id (and ID number).
NewPage(db, pgs, properties) ==
    LET n == Len(pgs) + 1
        m == get_backend_schema(db)
    IN  [id |-> PageId(db, n),
         archived |-> FALSE,
         properties |->
            [f \in DOMAIN m |->
                IF m[f] = "unique_id" THEN [unique_id |-> [number |-> Num(n)]]
                ELSE IF f \in DOMAIN properties THEN properties[f]
                ELSE EmptyProperty(m[f])]]

\* client.pages.update: the given properties replace the page's, the others stay.
UpdatedPages(pgs, page_id, properties) ==
    [j \in 1..Len(pgs) |->
        IF pgs[j].id = page_id
        THEN [pgs[j] EXCEPT !.properties =
                [f \in DOMAIN @ |-> IF f \in DOMAIN properties THEN properties[f] ELSE @[f]]]
        ELSE pgs[j]]

\* Whether a page satisfies a native filter.
RECURSIVE Matches(_, _)
Matches(page, nf) ==
    IF "property" \in DOMAIN nf
    THEN LET name == nf["property"].str
             kind == CHOOSE x \in DOMAIN nf : x # "property"
             op == CHOOSE o \in DOMAIN nf[kind] : TRUE
             v == nf[kind][op]
             prop == page.properties[name]
         IN  CASE kind = "unique_id" /\ op = EQUALS ->
                    prop.unique_id # None /\ prop.unique_id.number = v
               [] kind = "relation" /\ op = CONTAINS ->
                    \E j \in 1..Len(prop.relation) : prop.relation[j].id = v
               [] kind = "select" /\ op = EQUALS ->
                    prop.select # None /\ prop.select.name = v
               [] kind \in {"email", "url"} /\ op = EQUALS -> prop[kind] = v
               [] kind \in {"title", "rich_text"} /\ op = EQUALS ->
                    prop[kind] # <<>> /\ prop[kind][1].text.content = v
               [] OTHER -> FALSE
    ELSE IF AND \in DOMAIN nf
    THEN \A j \in 1..Len(nf[AND]) : Matches(page, nf[AND][j])
    ELSE \E j \in 1..Len(nf[OR]) : Matches(page, nf[OR][j])

\* client.pages.update(page_id, archived=True)
ArchivedPages(pgs, page_id) ==
    [j \in 1..Len(pgs) |->
        IF pgs[j].id = page_id THEN [pgs[j] EXCEPT !.archived = TRUE] ELSE pgs[j]]

\* client.databases.query: one response, the first PageSize matching pages that
\* are not archived.
FirstPage(s) == SubSeq(s, 1, IF Len(s) < PageSize THEN Len(s) ELSE PageSize)

databases_query(pgs, query_params) ==
    LET matching == IF "filter" \in DOMAIN query_params
                    THEN SelectSeq(pgs, LAMBDA page :
                            ~page.archived /\ Matches(page, query_params.filter))
                    ELSE SelectSeq(pgs, LAMBDA page : ~page.archived)
    IN  [results |-> FirstPage(matching), has_more |-> Len(matching) > PageSize]

(***************************************************************************)
(* NotionIntegration.get_records                                           *)
(***************************************************************************)
\* The query_params of lines 159-163 (sort_params is never passed), or the
\* exception _convert_filter raised.
QueryParams(self, filter_params) ==
    IF filter_params = None THEN [database_id |-> self.database_id]
    ELSE LET nf == _convert_filter(self, filter_params)
         IN  IF IsError(nf) THEN nf
             ELSE [database_id |-> self.database_id, filter |-> nf]

\* A page of the response as a record: the parsed properties and the page id.
RecordOf(page) ==
    [key \in DOMAIN page.properties \union {"id"} |->
        IF key = "id" THEN page.id ELSE _parse_property(page.properties[key])]

RecordsOf(response) ==
    [j \in 1..Len(response.results) |-> RecordOf(response.results[j])]

\* The records get_records returns when the request succeeds, or the exception.
get_records(self, pgs, filter_params) ==
    LET query_params == QueryParams(self, filter_params)
    IN  IF IsError(query_params) THEN query_params
        ELSE List(RecordsOf(databases_query(pgs, query_params)))

(***************************************************************************)
(* State.                                                                  *)
(***************************************************************************)
VARIABLES
    pages,    \* pages[db]: the pages of the Notion database db, in creation order
    pc,       \* pc[p]: the call invocation p is about to make
    local,    \* local[p]: the local variables of invocation p
    result,   \* result[p]: what the handler of invocation p returned or raised
    log,      \* log[p]: the calls the current draft_first_contact run of p has made
    faults,   \* requests and generations that failed, and crashes, so far
    arg,      \* the argument of the adapter function under test
    ret,      \* what the adapter function under test returned
    sent,     \* the requests the integrations under test have sent
    client,   \* client[db]: self.client of the integration of database db
    token,    \* os.getenv('NOTION_TOKEN')
    handshaken,  \* handshaken[db]: databases.retrieve has succeeded for the integration
    calls     \* the calls made on the integrations on their own, with their outcomes

connVars == <<client, token, handshaken, calls>>
vars == <<pages, pc, local, result, log, faults, arg, ret, sent, connVars>>
fnVars == <<arg, ret, sent, connVars>>

\* Whether the next request (or generation) succeeds: failures are bounded.
Outcomes == IF faults < MaxFaults THEN BOOLEAN ELSE {TRUE}
Count(ok) == faults' = IF ok THEN faults ELSE faults + 1

Pending == [k |-> "pending"]

NoFrame ==
    [handler |-> "none", lead_id |-> None, lead |-> None, existing_emails |-> None,
     email |-> None, email_id |-> None, leads |-> <<>>, i |-> 0, generated_emails |-> <<>>,
     outcomes |-> <<>>, contact_list |-> <<>>, record_ids |-> <<>>,
     before |-> <<>>]

APIResponseError == Raised("APIResponseError", "request failed")
LeadNotFound == Raised("ValueError", "Lead not found")
GenerationError == Raised("Exception", "generation failed")
Crashed == Raised("Crashed", "the invocation stopped")

(***************************************************************************)
(* crawl_and_store_contacts                                                *)
(***************************************************************************)
\* What extract_contacts_from_url can return: contacts with every field set
\* or every field empty.
FullContact == [name |-> Str("A"), email |-> Str("a@x.com"), role |-> Str("PM")]
EmptyContact == [name |-> Str(""), email |-> Str(""), role |-> Str("")]
Contacts == {FullContact, EmptyContact}
\* The lists it returns: no contact, or full and empty contacts in turn.
Other(contact) == IF contact = FullContact THEN EmptyContact ELSE FullContact
ContactList(first, n) == [j \in 1..n |-> IF j % 2 = 1 THEN first ELSE Other(first)]
ContactLists == {ContactList(first, n) : first \in Contacts, n \in 0..MaxContacts}

\* x or y
Or(x, y) == IF Truthy(x) THEN x ELSE y

LeadData(contact) ==
    [Name |-> Or(contact.name, Str("Unknown")),
     Email_Address |-> Or(contact.email, Str("")),
     Profile |-> Or(contact.role, Str("")),
     Contact_Status |-> Str("New"),
     Linkedin |-> None,
     Company |-> List(<<>>),
     Emails |-> List(<<>>)]

\* The leads database after n contacts were stored.
RECURSIVE StoredLeads(_)
StoredLeads(n) ==
    IF n = 0 THEN <<>>
    ELSE LET before == StoredLeads(n - 1)
         IN  Append(before,
                    NewPage("leads", before, _format_properties(leads_db, LeadData(FullContact))))

\* The leads database starts empty, with one full response of leads, or with
\* more leads than one response carries.
InitialLeads == {0, PageSize, MaxLeads}

\* Leads the crawls in flight have still to insert.
Remaining(p) ==
    IF pc[p] = "crawl_insert"
    THEN Len(local[p].contact_list) - Len(local[p].record_ids)
    ELSE 0
RECURSIVE SumRemaining(_)
SumRemaining(n) == IF n = 0 THEN 0 ELSE Remaining(n) + SumRemaining(n - 1)

CanInvoke(p, sequential) ==
    /\ pc[p] = "idle"
    /\ \A q \in Procs : q < p => pc[q] # "idle"
    /\ sequential => \A q \in Procs : pc[q] \in {"idle", "done"}

\* A handler starts in invocation p with the given locals.
Invoke(p, frame, at) ==
    /\ local' = [local EXCEPT ![p] = frame]
    /\ pc' = [pc EXCEPT ![p] = at]
    /\ result' = [result EXCEPT ![p] = Pending]
    /\ log' = [log EXCEPT ![p] = <<>>]

\* The handler of p returns or raises.
Leave(p, outcome) ==
    /\ pc' = [pc EXCEPT ![p] = "done"]
    /\ result' = [result EXCEPT ![p] = outcome]

\* /crawl <url>: extract_contacts_from_url returned contact_list; with no
\* contact the loop makes no turn and the empty list of ids is returned.
crawl(p, sequential) ==
    /\ CanInvoke(p, sequential)
    /\ \E contact_list \in ContactLists :
        LET frame == [NoFrame EXCEPT !.handler = "crawl", !.contact_list = contact_list]
        IN  /\ Len(pages.leads) + SumRemaining(MaxCalls) + Len(contact_list) <= MaxLeads
            /\ IF contact_list = <<>>
               THEN /\ local' = [local EXCEPT ![p] = frame]
                    /\ log' = [log EXCEPT ![p] = <<>>]
                    /\ Leave(p, List(<<>>))
               ELSE Invoke(p, frame, "crawl_insert")
    /\ UNCHANGED <<pages, faults, fnVars>>

\* One turn of the loop, a failed insert ending it with the ids so far.
crawl_insert_swallows(p) ==
    /\ pc[p] = "crawl_insert"
    /\ LET f == local[p]
           n == Len(f.record_ids) + 1
           lead_data == LeadData(f.contact_list[n])
           page == NewPage("leads", pages.leads, _format_properties(leads_db, lead_data))
           record_ids == Append(f.record_ids, page.id)
       IN  \E ok \in Outcomes : Count(ok) /\
             IF ok
             THEN /\ pages' = [pages EXCEPT !.leads = Append(@, page)]
                  /\ local' = [local EXCEPT ![p].record_ids = record_ids]
                  /\ IF n = Len(f.contact_list)
                     THEN Leave(p, List(record_ids))
                     ELSE UNCHANGED <<pc, result>>
             ELSE /\ Leave(p, List(f.record_ids))
                  /\ UNCHANGED <<pages, local>>
    /\ log' = [log EXCEPT ![p] = Append(@, "leads.insert")]
    /\ UNCHANGED fnVars

\* One turn of the loop: leads_db.insert_record(lead_data) for the next contact.
crawl_insert(p) ==
    /\ pc[p] = "crawl_insert"
    /\ LET f == local[p]
           n == Len(f.record_ids) + 1
           lead_data == LeadData(f.contact_list[n])
           page == NewPage("leads", pages.leads, _format_properties(leads_db, lead_data))
           record_ids == Append(f.record_ids, page.id)
       IN  \E ok \in Outcomes : Count(ok) /\
             IF ok
             THEN /\ pages' = [pages EXCEPT !.leads = Append(@, page)]
                  /\ local' = [local EXCEPT ![p].record_ids = record_ids]
                  /\ IF n = Len(f.contact_list)
                     THEN Leave(p, List(record_ids))
                     ELSE UNCHANGED <<pc, result>>
             ELSE /\ Leave(p, APIResponseError)
                  /\ UNCHANGED <<pages, local>>
    /\ log' = [log EXCEPT ![p] = Append(@, "leads.insert")]
    /\ UNCHANGED fnVars

(***************************************************************************)
(* draft_first_contact and draft_all_first_contacts                        *)
(***************************************************************************)
\* generate_email: the model's answer for the lead.
generate_email(name, profile, company) ==
    [object |-> Str("Hello"), body |-> Str("Dear " \o PyStr(name).str)]

\* What draft_first_contact returns or raises leaves the handler, with no
\* try around the call.
FinishPropagates(p, f, outcome, lg) ==
    /\ local' = [local EXCEPT ![p] = f]
    /\ log' = [log EXCEPT ![p] = lg]
    /\ Leave(p, outcome)

\* draft_first_contact returns (or raises) outcome, its locals being f and its
\* calls lg.  Under draft_all_first_contacts the loop takes the outcome and
\* goes on to the next lead, or returns the emails it has collected.
Finish(p, f, outcome, lg) ==
    IF f.handler = "draft_all"
    THEN LET generated_emails ==
                 IF ~IsError(outcome) /\ outcome # None
                 THEN Append(f.generated_emails, outcome)
                 ELSE f.generated_emails
             g == [f EXCEPT !.generated_emails = generated_emails,
                            !.outcomes = Append(@, [lead_id |-> f.lead_id,
                                                    outcome |-> outcome])]
         IN  IF f.i < Len(f.leads)
             THEN /\ local' = [local EXCEPT ![p] =
                                 [g EXCEPT !.i = f.i + 1,
                                           !.lead_id = f.leads[f.i + 1]["ID"],
                                           !.lead = None, !.existing_emails = None,
                                           !.email = None, !.email_id = None]]
                  /\ pc' = [pc EXCEPT ![p] = "get_lead"]
                  /\ log' = [log EXCEPT ![p] = <<>>]
                  /\ UNCHANGED result
             ELSE /\ local' = [local EXCEPT ![p] = g]
                  /\ log' = [log EXCEPT ![p] = lg]
                  /\ Leave(p, List(generated_emails))
    ELSE /\ local' = [local EXCEPT ![p] = f]
         /\ log' = [log EXCEPT ![p] = lg]
         /\ Leave(p, outcome)

\* The step goes on to the call at `at`.
Goto(p, f, at, lg) ==
    /\ local' = [local EXCEPT ![p] = f]
    /\ pc' = [pc EXCEPT ![p] = at]
    /\ log' = [log EXCEPT ![p] = lg]
    /\ UNCHANGED result

\* The lead ids /draft is given: of the first leads, and of no lead.
LeadIds == {1, 2, MaxLeads + 1}

\* /draft <lead_id> <prompt>; before keeps the lead pages as they are when
\* draft_first_contact is called.
draft(p, sequential) ==
    /\ CanInvoke(p, sequential)
    /\ \E n \in LeadIds :
        Invoke(p, [NoFrame EXCEPT !.handler = "draft", !.lead_id = Num(n),
                                  !.before = pages.leads], "get_lead")
    /\ UNCHANGED <<pages, faults, fnVars>>

\* /draft_all <prompt>
draft_all(p, sequential) ==
    /\ CanInvoke(p, sequential)
    /\ Invoke(p, [NoFrame EXCEPT !.handler = "draft_all"], "all_get_leads")
    /\ UNCHANGED <<pages, faults, fnVars>>

\* leads = await leads_db.get_records()
all_get_leads(p) ==
    /\ pc[p] = "all_get_leads"
    /\ LET f == local[p]
           leads == get_records(leads_db, pages.leads, None)
       IN  \E ok \in Outcomes : Count(ok) /\
             IF ~ok THEN Leave(p, APIResponseError) /\ UNCHANGED <<local, log>>
             ELSE IF leads.items = <<>>
             THEN Leave(p, List(<<>>)) /\ UNCHANGED <<local, log>>
             ELSE Goto(p, [f EXCEPT !.leads = leads.items, !.i = 1,
                                    !.lead_id = leads.items[1]["ID"]],
                       "get_lead", <<>>)
    /\ UNCHANGED <<pages, fnVars>>

\* No filter: every lead matches.
LeadFilterAny(lead_id) == None

LeadFilter(lead_id) == FieldFilter("ID", EQUALS, lead_id)

\* leads = await leads_db.get_records(filter_params=lead_filter)
get_lead(p) ==
    /\ pc[p] = "get_lead"
    /\ LET f == local[p]
           lead_filter == LeadFilter(f.lead_id)
           leads == get_records(leads_db, pages.leads, lead_filter)
           lg == Append(log[p], "leads.query")
       IN  \E ok \in Outcomes : Count(ok) /\
             IF IsError(leads) THEN ok /\ Finish(p, f, leads, log[p])
             ELSE IF ~ok THEN Finish(p, f, APIResponseError, lg)
             ELSE IF leads.items = <<>> THEN Finish(p, f, LeadNotFound, lg)
             ELSE Goto(p, [f EXCEPT !.lead = leads.items[1]], "get_emails", lg)
    /\ UNCHANGED <<pages, fnVars>>

\* The existence check on another Type.
EmailFilterWrongType(lead) ==
    CompositeFilter(AND,
        <<FieldFilter("Recipient", CONTAINS, lead["id"]),
          FieldFilter("Type", EQUALS, Str("follow_up"))>>)

EmailFilter(lead) ==
    CompositeFilter(AND,
        <<FieldFilter("Recipient", CONTAINS, lead["id"]),
          FieldFilter("Type", EQUALS, Str("first_contact"))>>)

\* existing_emails = await emails_db.get_records(filter_params=email_filter)
get_emails(p) ==
    /\ pc[p] = "get_emails"
    /\ LET f == local[p]
           email_filter == EmailFilter(f.lead)
           existing_emails == get_records(emails_db, pages.emails, email_filter)
           lg == Append(log[p], "emails.query")
       IN  \E ok \in Outcomes : Count(ok) /\
             IF IsError(existing_emails) THEN ok /\ Finish(p, f, existing_emails, log[p])
             ELSE IF ~ok THEN Finish(p, f, APIResponseError, lg)
             ELSE IF existing_emails.items # <<>>
             THEN Finish(p, [f EXCEPT !.existing_emails = existing_emails], None, lg)
             ELSE Goto(p, [f EXCEPT !.existing_emails = existing_emails], "generate", lg)
    /\ UNCHANGED <<pages, fnVars>>

\* The generation, its failure answered with the sentinel.
generate_returns_none(p) ==
    /\ pc[p] = "generate"
    /\ LET f == local[p]
           email == generate_email(f.lead["Name"], f.lead["Profile"], f.lead["Company"])
           lg == Append(log[p], "generate_email")
       IN  \E ok \in Outcomes : Count(ok) /\
             IF ok THEN Goto(p, [f EXCEPT !.email = email], "insert", lg)
             ELSE Finish(p, f, None, lg)
    /\ UNCHANGED <<pages, fnVars>>

\* email = generate_email(prompt, name=..., profile=..., company=..., ...)
generate(p) ==
    /\ pc[p] = "generate"
    /\ LET f == local[p]
           email == generate_email(f.lead["Name"], f.lead["Profile"], f.lead["Company"])
           lg == Append(log[p], "generate_email")
       IN  \E ok \in Outcomes : Count(ok) /\
             IF ok THEN Goto(p, [f EXCEPT !.email = email], "insert", lg)
             ELSE Finish(p, f, GenerationError, lg)
    /\ UNCHANGED <<pages, fnVars>>

\* The email without its Recipient.
EmailDataNoRecipient(email, lead) ==
    [Object |-> email.object,
     Text |-> email.body,
     Type |-> Str("first_contact"),
     Recipient |-> List(<<>>),
     Email_Status |-> Str("to_be_sent")]

EmailData(email, lead) ==
    [Object |-> email.object,
     Text |-> email.body,
     Type |-> Str("first_contact"),
     Recipient |-> List(<<[id |-> lead["id"]]>>),
     Email_Status |-> Str("to_be_sent")]

\* email_id = await emails_db.insert_record(email_data)
insert(p) ==
    /\ pc[p] = "insert"
    /\ LET f == local[p]
           email_data == EmailData(f.email, f.lead)
           page == NewPage("emails", pages.emails, _format_properties(emails_db, email_data))
           lg == Append(log[p], "emails.insert")
       IN  \E ok \in Outcomes : Count(ok) /\
             IF ok
             THEN /\ pages' = [pages EXCEPT !.emails = Append(@, page)]
                  /\ Goto(p, [f EXCEPT !.email_id = page.id], "update", lg)
             ELSE /\ UNCHANGED pages
                  /\ Finish(p, f, APIResponseError, lg)
    /\ UNCHANGED fnVars

\* The list with the new email alone.
LeadEmailsOnlyNew(lead, email_id) == List(<<[id |-> email_id]>>)

\* lead_emails = lead.get("Emails", []); lead_emails.append({"id": email_id})
LeadEmails(lead, email_id) ==
    LET current == IF "Emails" \in DOMAIN lead THEN lead["Emails"] ELSE List(<<>>)
    IN  List(Append(current.items, [id |-> email_id]))

\* await leads_db.update_record(page_id=lead["id"], data={"Emails": lead_emails})
update(p) ==
    /\ pc[p] = "update"
    /\ LET f == local[p]
           lead_emails == LeadEmails(f.lead, f.email_id)
           g == [f EXCEPT !.lead = [f.lead EXCEPT !["Emails"] = lead_emails]]
           data == [Emails |-> lead_emails]
           lg == Append(log[p], "leads.update")
       IN  \E ok \in Outcomes : Count(ok) /\
             IF ok
             THEN /\ pages' = [pages EXCEPT !.leads =
                        UpdatedPages(@, f.lead["id"], _format_properties(leads_db, data))]
                  /\ Finish(p, g, f.email, lg)
             ELSE /\ UNCHANGED pages
                  /\ Finish(p, g, APIResponseError, lg)
    /\ UNCHANGED fnVars

\* The invocation stops where it is (the process dies, the task is cancelled).
Crash(p) ==
    /\ pc[p] \notin {"idle", "done"}
    /\ faults < MaxFaults
    /\ faults' = faults + 1
    /\ Leave(p, Crashed)
    /\ UNCHANGED <<pages, local, log, fnVars>>

\* An email of another type written earlier to the first lead.
EarlierEmail ==
    NewPage("emails", <<>>,
            _format_properties(emails_db,
                [Object |-> Str("Again"), Text |-> Str("As promised"),
                 Type |-> Str("follow_up"),
                 Recipient |-> List(<<[id |-> PageId("leads", 1)]>>),
                 Email_Status |-> Str("sent")]))

\* The databases when the handlers start: the stored leads and no email, or
\* the earlier email too, referenced from the Emails of the first lead.
InitialPages ==
    {[leads |-> StoredLeads(n), emails |-> <<>>] : n \in InitialLeads}
    \union
    {[leads |-> UpdatedPages(StoredLeads(n), PageId("leads", 1),
                    _format_properties(leads_db,
                        [Emails |-> List(<<[id |-> EarlierEmail.id]>>)])),
      emails |-> <<EarlierEmail>>] : n \in InitialLeads \ {0}}

(***************************************************************************)
(* The adapter's functions on their own: format_field and _parse_property  *)
(* on the values of a field, get_records on a filter.                      *)
(***************************************************************************)
\* An integration whose database has a property of every Notion kind.
any_db ==
    [database_id |-> "leads",
     schema |-> [Title |-> "title", Text |-> "text", Choice |-> "text",
                 Mail |-> "email", Link |-> "url", Refs |-> "relation",
                 Count |-> "number", Flag |-> "boolean"],
     notion_mappings |-> [Title |-> "title", Text |-> "rich_text", Choice |-> "select",
                          Mail |-> "email", Link |-> "url", Refs |-> "relation",
                          Count |-> "number", Flag |-> "checkbox"]]

Values ==
    {None, Str(""), Str("a"), Str("b c"), Num(0), Num(7),
     List(<<>>), List(<<[id |-> Str("email-1")]>>),
     List(<<[id |-> Str("email-2")], [id |-> Str("email-1")]>>)}

FormatArgs ==
    UNION {{[fn |-> "format_field", self |-> d, field_name |-> f, value |-> v] :
                f \in DOMAIN d.notion_mappings \union {"Unmapped"}, v \in Values} :
           d \in {leads_db, emails_db, any_db}}

FieldFilters ==
    {FieldFilter(f, op, v) :
        f \in {"ID", "Type", "Recipient", "Bogus"},
        op \in {EQUALS, CONTAINS},
        v \in {Num(1), Str("first_contact"), Str("lead-1")}}

Filters ==
    FieldFilters
    \union {CompositeFilter(op, <<f, g>>) : op \in {AND, OR}, f \in FieldFilters, g \in FieldFilters}
    \union {CompositeFilter(AND, <<CompositeFilter(OR, <<f, g>>), g>>) :
                f \in {FieldFilter("Type", EQUALS, Str("first_contact")),
                       FieldFilter("Bogus", EQUALS, Num(1))},
                g \in {FieldFilter("Recipient", CONTAINS, Str("lead-1")),
                       FieldFilter("Bogus", CONTAINS, Str("lead-1"))}}

GetRecordsArgs ==
    {[fn |-> "get_records", self |-> d, filter_params |-> f] :
        d \in {leads_db, emails_db}, f \in Filters \union {None}}

\* field = self.format_field(field_name, value)
fn_format_field ==
    /\ arg # None
    /\ arg.fn = "format_field"
    /\ ret = Pending
    /\ ret' = [formatted |-> format_field(arg.self, arg.field_name, arg.value)]
    /\ UNCHANGED <<pages, pc, local, result, log, faults, arg, sent, connVars>>

\* self._parse_property(field)
fn_parse_property ==
    /\ ret # Pending
    /\ DOMAIN ret = {"formatted"}
    /\ ~IsError(ret.formatted)
    /\ ret' = [formatted |-> ret.formatted, parsed |-> _parse_property(ret.formatted)]
    /\ UNCHANGED <<pages, pc, local, result, log, faults, arg, sent, connVars>>

\* records = await self.get_records(filter_params)
fn_get_records ==
    /\ arg # None
    /\ arg.fn = "get_records"
    /\ ret = Pending
    /\ LET query_params == QueryParams(arg.self, arg.filter_params)
       IN  /\ ret' = [returned |-> get_records(arg.self, pages[arg.self.database_id],
                                               arg.filter_params)]
           /\ sent' = IF IsError(query_params) THEN sent ELSE Append(sent, query_params)
    /\ UNCHANGED <<pages, pc, local, result, log, faults, arg, connVars>>

(***************************************************************************)
(* The connection of an integration: connect, and the calls that connect    *)
(* first when self.client is not set.                                       *)
(***************************************************************************)
AsyncClient == [k |-> "AsyncClient"]
MissingToken == Raised("ValueError", "NOTION_TOKEN environment variable is required")

\* NotionIntegration.connect, the handshake (databases.retrieve) succeeding or
\* not: self.client after the call, whether the handshake succeeded, and what
\* the call raised (None when it returned).
connect(self_client, retrieved) ==
    IF ~Truthy(token)
    THEN [client |-> self_client, handshake |-> FALSE, raised |-> MissingToken]
    ELSE [client |-> AsyncClient, handshake |-> retrieved,
          raised |-> IF retrieved THEN None ELSE APIResponseError]

\* if not self.client: await self.connect()
EnsureConnected(db, retrieved) ==
    IF ~Truthy(client[db])
    THEN connect(client[db], retrieved)
    ELSE [client |-> client[db], handshake |-> FALSE, raised |-> None]

\* A call of a method of the integration of db ends: c is what connecting
\* did, api the request the method sends once connected, outcome what the
\* method returns or raises after the request.
Called(db, method, c, api, outcome) ==
    /\ client' = [client EXCEPT ![db] = c.client]
    /\ handshaken' = [handshaken EXCEPT ![db] = @ \/ c.handshake]
    /\ sent' = IF IsError(c.raised) THEN sent
               ELSE Append(sent, [api |-> api, database_id |-> db,
                                  handshaken |-> handshaken[db] \/ c.handshake])
    /\ calls' = Append(calls, [self |-> db, method |-> method,
                               outcome |-> IF IsError(c.raised) THEN c.raised ELSE outcome])
    /\ UNCHANGED <<token, pc, local, result, log, faults, arg, ret>>

\* The record a call inserts, and the fields a call updates.
SomeRecord(db) ==
    IF db = "leads" THEN LeadData(FullContact)
    ELSE EmailData(generate_email(Str("A"), Str("PM"), List(<<>>)), [id |-> PageId("leads", 1)])
SomePatch(db) ==
    IF db = "leads" THEN [Contact_Status |-> Str("Contacted")]
    ELSE [Email_Status |-> Str("sent")]

\* await db.connect()
call_connect ==
    /\ Len(calls) < MaxOps
    /\ \E db \in DatabaseType, retrieved \in BOOLEAN :
        LET c == connect(client[db], retrieved)
        IN  /\ client' = [client EXCEPT ![db] = c.client]
            /\ handshaken' = [handshaken EXCEPT ![db] = @ \/ c.handshake]
            /\ calls' = Append(calls, [self |-> db, method |-> "connect", outcome |-> c.raised])
    /\ UNCHANGED <<pages, pc, local, result, log, faults, arg, ret, sent, token>>

\* await db.insert_record(data)
call_insert_record ==
    /\ Len(calls) < MaxOps
    /\ \E db \in DatabaseType, retrieved \in BOOLEAN, ok \in BOOLEAN :
        LET c == EnsureConnected(db, retrieved)
            properties == _format_properties(NotionIntegration(db), SomeRecord(db))
            page == NewPage(db, pages[db], properties)
        IN  /\ Len(pages[db]) < MaxLeads
            /\ pages' = IF ~IsError(c.raised) /\ ok
                        THEN [pages EXCEPT ![db] = Append(@, page)]
                        ELSE pages
            /\ Called(db, "insert_record", c, "pages.create",
                      IF ok THEN page.id ELSE APIResponseError)

\* await db.update_record(page_id, data), page_id naming the first page or no page
call_update_record ==
    /\ Len(calls) < MaxOps
    /\ \E db \in DatabaseType, retrieved \in BOOLEAN, ok \in BOOLEAN :
        LET c == EnsureConnected(db, retrieved)
            page_id == PageId(db, 1)
            properties == _format_properties(NotionIntegration(db), SomePatch(db))
            done == ok /\ pages[db] # <<>>
        IN  /\ pages' = IF ~IsError(c.raised) /\ done
                        THEN [pages EXCEPT ![db] = UpdatedPages(@, page_id, properties)]
                        ELSE pages
            /\ Called(db, "update_record", c, "pages.update",
                      IF done THEN None ELSE APIResponseError)

\* await db.delete_record(page_id)
call_delete_record ==
    /\ Len(calls) < MaxOps
    /\ \E db \in DatabaseType, retrieved \in BOOLEAN, ok \in BOOLEAN :
        LET c == EnsureConnected(db, retrieved)
            page_id == PageId(db, 1)
            done == ok /\ pages[db] # <<>>
        IN  /\ pages' = IF ~IsError(c.raised) /\ done
                        THEN [pages EXCEPT ![db] = ArchivedPages(@, page_id)]
                        ELSE pages
            /\ Called(db, "delete_record", c, "pages.update",
                      IF done THEN None ELSE APIResponseError)

\* await db.get_records()
call_get_records ==
    /\ Len(calls) < MaxOps
    /\ \E db \in DatabaseType, retrieved \in BOOLEAN, ok \in BOOLEAN :
        LET c == EnsureConnected(db, retrieved)
        IN  /\ Called(db, "get_records", c, "databases.query",
                      IF ok THEN get_records(NotionIntegration(db), pages[db], None)
                      ELSE APIResponseError)
            /\ UNCHANGED pages

(***************************************************************************)
(* Specifications.                                                         *)
(***************************************************************************)
\* The handlers of bot.py connect their integrations before the workflow runs.
Connected ==
    /\ token = Str("secret")
    /\ client = [db \in DatabaseType |-> AsyncClient]
    /\ handshaken = [db \in DatabaseType |-> TRUE]
    /\ calls = <<>>

Init ==
    /\ pages \in InitialPages
    /\ pc = [p \in Procs |-> "idle"]
    /\ local = [p \in Procs |-> NoFrame]
    /\ result = [p \in Procs |-> Pending]
    /\ log = [p \in Procs |-> <<>>]
    /\ faults = 0
    /\ arg = None
    /\ ret = Pending
    /\ sent = <<>>
    /\ Connected

Step(p) ==
    \/ crawl_insert(p)
    \/ all_get_leads(p)
    \/ get_lead(p)
    \/ get_emails(p)
    \/ generate(p)
    \/ insert(p)
    \/ update(p)
    \/ Crash(p)

\* Handlers run concurrently.
Next ==
    \E p \in Procs :
        \/ crawl(p, FALSE)
        \/ draft(p, FALSE)
        \/ draft_all(p, FALSE)
        \/ Step(p)

Spec == Init /\ [][Next]_vars

\* Handlers run one after the other (the Application's default).
SeqNext ==
    \E p \in Procs :
        \/ crawl(p, TRUE)
        \/ draft(p, TRUE)
        \/ draft_all(p, TRUE)
        \/ Step(p)

SeqSpec == Init /\ [][SeqNext]_vars

\* The adapter's functions, called on each argument in turn.
FnInit ==
    /\ \E n \in InitialLeads : pages = [leads |-> StoredLeads(n), emails |-> <<>>]
    /\ pc = [p \in Procs |-> "idle"]
    /\ local = [p \in Procs |-> NoFrame]
    /\ result = [p \in Procs |-> Pending]
    /\ log = [p \in Procs |-> <<>>]
    /\ faults = 0
    /\ arg \in FormatArgs \union GetRecordsArgs
    /\ ret = Pending
    /\ sent = <<>>
    /\ Connected

FnNext == fn_format_field \/ fn_parse_property \/ fn_get_records

FnSpec == FnInit /\ [][FnNext]_vars

\* Calls on integrations that were constructed and not yet connected.
ConnInit ==
    /\ \E n \in InitialLeads : pages = [leads |-> StoredLeads(n), emails |-> <<>>]
    /\ pc = [p \in Procs |-> "idle"]
    /\ local = [p \in Procs |-> NoFrame]
    /\ result = [p \in Procs |-> Pending]
    /\ log = [p \in Procs |-> <<>>]
    /\ faults = 0
    /\ arg = None
    /\ ret = Pending
    /\ sent = <<>>
    /\ token \in {None, Str("secret")}
    /\ client = [db \in DatabaseType |-> None]
    /\ handshaken = [db \in DatabaseType |-> FALSE]
    /\ calls = <<>>

ConnNext ==
    \/ call_connect
    \/ call_insert_record
    \/ call_update_record
    \/ call_delete_record
    \/ call_get_records

ConnSpec == ConnInit /\ [][ConnNext]_vars

(***************************************************************************)
(* Properties of the workflows.                                            *)
(***************************************************************************)
IsEmail(x) == "object" \in DOMAIN x
IsListValue(x) == "items" \in DOMAIN x

\* The lead pages whose ID is the lead_id invocation p works on.
TargetPages(p) ==
    {j \in 1..Len(pages.leads) :
        pages.leads[j].properties["ID"].unique_id.number = local[p].lead_id}

\* The first-contact emails whose Recipient holds the lead page page_id.
FirstContactsOf(page_id) ==
    {e \in 1..Len(pages.emails) :
        LET props == pages.emails[e].properties
        IN  /\ props["Type"].select # None
            /\ props["Type"].select.name = Str("first_contact")
            /\ \E r \in 1..Len(props["Recipient"].relation) :
                   props["Recipient"].relation[r].id = page_id}

\* Whether the Emails of a lead page reference the email page email_id.
References(page, email_id) ==
    \E r \in 1..Len(page.properties["Emails"].relation) :
        page.properties["Emails"].relation[r].id = email_id

\* The lead page with the given page id references email_id.
LeadReferences(page_id, email_id) ==
    \E j \in 1..Len(pages.leads) :
        pages.leads[j].id = page_id /\ References(pages.leads[j], email_id)

Drafted(p) == local[p].handler = "draft" /\ pc[p] = "done"

\* C1 (handlers one after the other): a draft_first_contact that returned
\* the generated email leaves exactly one first-contact email for the lead,
\* referenced from the lead's Emails; it returns None only when such an email
\* exists; and the next call for the same lead, if nothing fails, returns
\* None having made the two queries and no insert and no update.
C1_TwiceInSequence ==
    \A p \in Procs :
        Drafted(p) =>
            /\ IsEmail(result[p]) =>
                  \A j \in TargetPages(p) :
                      /\ Cardinality(FirstContactsOf(pages.leads[j].id)) = 1
                      /\ \A e \in FirstContactsOf(pages.leads[j].id) :
                            References(pages.leads[j], pages.emails[e].id)
            /\ result[p] = None =>
                  \A j \in TargetPages(p) : FirstContactsOf(pages.leads[j].id) # {}
            /\ \A q \in Procs :
                  /\ q = p + 1 /\ Drafted(q)
                  /\ local[q].lead_id = local[p].lead_id
                  /\ IsEmail(result[p]) /\ ~IsError(result[q])
                  => /\ result[q] = None
                     /\ log[q] = <<"leads.query", "emails.query">>

\* The first call returned the email and the second the sentinel.
C1_Witness ==
    /\ Drafted(1) /\ Drafted(2)
    /\ local[1].lead_id = local[2].lead_id
    /\ IsEmail(result[1])
    /\ result[2] = None
    /\ Len(pages.emails) = 1

\* C2 as stated: in every reachable state each lead has at most one
\* first-contact email.
C2_AtMostOneFirstContact ==
    \A j \in 1..Len(pages.leads) :
        Cardinality(FirstContactsOf(pages.leads[j].id)) <= 1

\* C3: a draft_first_contact whose lead_id matches no lead makes the lead
\* query and nothing else (no generation, no insert, no update), and unless
\* the query itself failed or the invocation stopped it raises "Lead not found".
C3_MissingLead ==
    \A p \in Procs :
        /\ local[p].handler = "draft"
        /\ TargetPages(p) = {}
        => /\ pc[p] \in {"get_lead", "done"}
           /\ log[p] \in {<<>>, <<"leads.query">>}
           /\ pc[p] = "done" /\ result[p] \notin {APIResponseError, Crashed}
              => result[p] = LeadNotFound

C3_Witness ==
    \E p \in Procs :
        /\ Drafted(p)
        /\ TargetPages(p) = {}
        /\ result[p] = LeadNotFound
        /\ log[p] = <<"leads.query">>

\* draft_first_contact stopped in p after its insert returned an id and
\* before its update succeeded.
Interrupted(p) ==
    /\ pc[p] = "done"
    /\ IsError(result[p])
    /\ local[p].email_id # None

\* C4 (handlers one after the other): once a draft_first_contact has stopped
\* between its insert and its update, the lead has exactly one first-contact
\* email, the one inserted, and the lead's Emails do not reference it; this
\* stays so whatever is invoked afterwards.
C4_InterruptedAfterInsert ==
    \A p \in Procs :
        Interrupted(p) =>
            LET page_id == local[p].lead["id"]
            IN  /\ Cardinality(FirstContactsOf(page_id)) = 1
                /\ \A e \in FirstContactsOf(page_id) :
                       pages.emails[e].id = local[p].email_id
                /\ ~LeadReferences(page_id, local[p].email_id)

\* A draft_first_contact for the same lead ran after the interrupted one.
C4_Witness ==
    \E p, q \in Procs :
        /\ Interrupted(p)
        /\ local[p].handler = "draft"
        /\ p < q /\ Drafted(q)
        /\ local[q].lead_id = local[p].lead_id
        /\ result[q] = None

\* C5 as stated: a draft_first_contact for the same lead that completes after
\* an interrupted one leaves the email referenced from the lead's Emails.
C5_Converges ==
    \A p, q \in Procs :
        /\ Interrupted(p)
        /\ p < q /\ Drafted(q)
        /\ local[q].lead_id = local[p].lead_id
        /\ ~IsError(result[q])
        => LeadReferences(local[p].lead["id"], local[p].email_id)

\* The emails among the outcomes of the leads draft_all_first_contacts has done.
EmailsOf(outcomes) ==
    LET got == SelectSeq(outcomes, LAMBDA o : IsEmail(o.outcome))
    IN  [j \in 1..Len(got) |-> got[j].outcome]

\* C6: draft_all_first_contacts drafts for the queried leads in order; the
\* emails it has collected are those of the leads whose draft returned an
\* email; and whatever the drafts raised, it goes through every lead and
\* returns the collected emails.
C6_DraftAll ==
    \A p \in Procs :
        local[p].handler = "draft_all" =>
            LET f == local[p]
            IN  /\ Len(f.outcomes) <= Len(f.leads)
                /\ \A j \in 1..Len(f.outcomes) : f.outcomes[j].lead_id = f.leads[j]["ID"]
                /\ f.generated_emails = EmailsOf(f.outcomes)
                /\ pc[p] \notin {"all_get_leads", "done"} => Len(f.outcomes) = f.i - 1
                /\ pc[p] = "done" /\ result[p] # Crashed /\ f.leads # <<>>
                   => /\ Len(f.outcomes) = Len(f.leads)
                      /\ result[p] = List(f.generated_emails)

\* Three leads, the second failing in generation: two emails returned.
C6_Witness ==
    \E p \in Procs :
        /\ local[p].handler = "draft_all"
        /\ pc[p] = "done"
        /\ Len(local[p].leads) = 3
        /\ Len(local[p].outcomes) = 3
        /\ IsEmail(local[p].outcomes[1].outcome)
        /\ local[p].outcomes[2].outcome = GenerationError
        /\ IsEmail(local[p].outcomes[3].outcome)
        /\ IsListValue(result[p])
        /\ Len(result[p].items) = 2

\* The lead page with the given id holds the lead data of the contact.
Stores(page_id, contact) ==
    \E j \in 1..Len(pages.leads) :
        /\ pages.leads[j].id = page_id
        /\ pages.leads[j].properties["Name"] =
              [title |-> <<[text |-> [content |->
                  IF contact.name = Str("") THEN Str("Unknown") ELSE contact.name]]>>]
        /\ pages.leads[j].properties["Contact_Status"] = [select |-> [name |-> Str("New")]]

\* C7: crawl_and_store_contacts returns one id per contact, in contact
\* order, when no insert fails; when the insert of a contact fails it raises
\* that error, having attempted no later insert, and the leads inserted
\* before stay stored.
C7_CrawlFailFast ==
    \A p \in Procs :
        local[p].handler = "crawl" /\ pc[p] = "done" =>
            LET f == local[p]
            IN  /\ \A j \in 1..Len(f.record_ids) : Stores(f.record_ids[j], f.contact_list[j])
                /\ \A j, k \in 1..Len(f.record_ids) :
                       f.record_ids[j] = f.record_ids[k] => j = k
                /\ IF IsListValue(result[p])
                   THEN /\ result[p].items = f.record_ids
                        /\ Len(f.record_ids) = Len(f.contact_list)
                        /\ Len(log[p]) = Len(f.contact_list)
                   ELSE /\ result[p] \in {APIResponseError, Crashed}
                        /\ Len(f.record_ids) < Len(f.contact_list)
                        /\ result[p] = APIResponseError
                           => Len(log[p]) = Len(f.record_ids) + 1

\* The second of two inserts failed: the first lead stays, no ids returned.
C7_Witness ==
    \E p \in Procs :
        /\ local[p].handler = "crawl" /\ pc[p] = "done"
        /\ Len(local[p].contact_list) = 2
        /\ Len(local[p].record_ids) = 1
        /\ result[p] = APIResponseError
        /\ Stores(local[p].record_ids[1], local[p].contact_list[1])

\* Invocation p, in a draft_first_contact run, takes a step.
DraftStep(p) ==
    /\ pc[p] \in {"get_lead", "get_emails", "generate", "insert", "update"}
    /\ <<pc[p], local[p], log[p], result[p]>>' # <<pc[p], local[p], log[p], result[p]>>

\* Whether the relation holds a reference to the page with the given id.
Holds(relation, id) == \E r \in 1..Len(relation) : relation[r].id = id

\* C13: a step of a draft_first_contact run modifies and removes no email
\* page and adds and removes no lead page; the only lead page a step changes
\* is the target lead, at the update, and only in its Emails, which
\* afterwards reference the new email, every email the run read in the
\* lead's Emails and every email the lead's Emails referenced when
\* draft_first_contact was called.
C13_OnlyEmailsPatched ==
    [][\A p \in Procs :
          DraftStep(p) =>
            /\ Len(pages'.emails) >= Len(pages.emails)
            /\ SubSeq(pages'.emails, 1, Len(pages.emails)) = pages.emails
            /\ Len(pages'.leads) = Len(pages.leads)
            /\ \A j \in 1..Len(pages.leads) :
                  pages'.leads[j] # pages.leads[j] =>
                    LET old == pages.leads[j]
                        new == pages'.leads[j]
                        read == local[p].lead["Emails"].items
                    IN  /\ pc[p] = "update"
                        /\ old.id = local[p].lead["id"]
                        /\ new.id = old.id /\ new.archived = old.archived
                        /\ \A f \in DOMAIN old.properties \ {"Emails"} :
                              new.properties[f] = old.properties[f]
                        /\ Holds(new.properties["Emails"].relation, local[p].email_id)
                        /\ \A r \in 1..Len(read) :
                              Holds(new.properties["Emails"].relation, read[r].id)
                        /\ local[p].handler = "draft" /\ j <= Len(local[p].before)
                           => LET before == local[p].before[j].properties["Emails"].relation
                              IN  \A r \in 1..Len(before) :
                                     Holds(new.properties["Emails"].relation, before[r].id)
      ]_vars

\* A draft_first_contact returned the email for the first lead, whose Emails
\* reference the earlier email and the new one.
C13_Witness ==
    \E p \in Procs :
        /\ Drafted(p) /\ IsEmail(result[p])
        /\ local[p].lead["id"] = PageId("leads", 1)
        /\ pages.emails # <<>> /\ pages.emails[1] = EarlierEmail
        /\ Len(pages.leads[1].properties["Emails"].relation) = 2
        /\ Holds(pages.leads[1].properties["Emails"].relation, EarlierEmail.id)
        /\ Holds(pages.leads[1].properties["Emails"].relation, local[p].email_id)

\* The email pages whose Recipient holds the lead page page_id.
EmailsTo(page_id) ==
    {e \in 1..Len(pages.emails) :
        Holds(pages.emails[e].properties["Recipient"].relation, page_id)}

\* C14 as stated: once every invocation started has ended and nothing has
\* failed, the Emails of each lead reference every email whose Recipient is
\* the lead.
C14_NoLostReference ==
    (faults = 0 /\ \A p \in Procs : pc[p] \in {"idle", "done"})
    => \A j \in 1..Len(pages.leads) :
          \A e \in EmailsTo(pages.leads[j].id) :
              References(pages.leads[j], pages.emails[e].id)

\* The calls of one draft_first_contact run, in order.
CallOrder ==
    <<"leads.query", "emails.query", "generate_email", "emails.insert", "leads.update">>
FirstCalls(n) == SubSeq(CallOrder, 1, n)

\* C12: the calls of a draft_first_contact run are made in the order lead
\* query, existence query, generation, insert, update; the generation is
\* called only when the existence query returned no email, the insert only
\* with the generated email and the update only with the id of the inserted
\* email; a failed generation is the last call of the run and GenerationError
\* is what the run raises.
C12_CallOrder ==
    \A p \in Procs :
        local[p].handler \in {"draft", "draft_all"} =>
            LET f == local[p]
                n == Len(log[p])
            IN  /\ n <= Len(CallOrder) /\ log[p] = FirstCalls(n)
                /\ pc[p] = "get_lead" => n = 0
                /\ pc[p] = "get_emails" => n = 1
                /\ pc[p] = "generate" => n = 2
                /\ pc[p] = "insert" => n = 3
                /\ pc[p] = "update" => n = 4
                /\ (pc[p] = "generate" \/ n >= 3) => f.existing_emails = List(<<>>)
                /\ (pc[p] = "insert" \/ n >= 4) => IsEmail(f.email)
                /\ (pc[p] = "update" \/ n = 5) => f.email_id # None
                /\ pc[p] = "done" /\ n >= 3 /\ f.email = None
                   => /\ n = 3
                      /\ f.handler = "draft" => result[p] = GenerationError
                      /\ f.handler = "draft_all"
                         => f.outcomes[Len(f.outcomes)].outcome = GenerationError

\* The generation of a draft_first_contact failed: the error left the call
\* after three calls and no email was inserted.
C12_Witness ==
    \E p \in Procs :
        /\ Drafted(p)
        /\ result[p] = GenerationError
        /\ log[p] = FirstCalls(3)
        /\ pages.emails = <<>>

(***************************************************************************)
(* Properties of the adapter's functions (checked under FnSpec).           *)
(***************************************************************************)
StringKinds == {"title", "rich_text", "select", "email", "url"}
RoundTripKinds == StringKinds \union {"relation"}

Formatted == arg # None /\ arg.fn = "format_field" /\ ret # Pending
Parsed == Formatted /\ "parsed" \in DOMAIN ret
Mapped == arg.field_name \in DOMAIN arg.self.notion_mappings
KindOfArg == arg.self.notion_mappings[arg.field_name]

\* A value of the type of a field of the given kind.
ValueOfKind(kind, v) ==
    \/ kind \in StringKinds /\ IsStr(v)
    \/ kind = "relation" /\ IsList(v)
    \/ kind = "number" /\ v.k = "int"

\* C9 as stated: for every mapped field of kind title, rich_text, select,
\* email, url or relation and every value of its type,
\* _parse_property(format_field(field, value)) is the value; a falsy number
\* formats to None.
C9_RoundTripEveryValue ==
    /\ Parsed /\ Mapped /\ KindOfArg \in RoundTripKinds
          /\ ValueOfKind(KindOfArg, arg.value)
       => ret.parsed = arg.value
    /\ Formatted /\ Mapped /\ KindOfArg = "number" /\ arg.value = Num(0)
       => ret.formatted = None

\* C9 (amended): the round trip holds for every non-empty string of a title,
\* rich_text, select, email or url field and for every list of references of
\* a relation field.  The empty string formats to None (omitted) for a
\* title, rich_text, select or email field and to a null url, parsed back as
\* None, for a url field; a falsy number formats to None.
C9_RoundTrip ==
    /\ Parsed /\ Mapped /\ KindOfArg \in StringKinds
          /\ IsStr(arg.value) /\ arg.value # Str("")
       => ret.parsed = arg.value
    /\ Parsed /\ Mapped /\ KindOfArg = "relation" /\ IsList(arg.value)
       => ret.parsed = arg.value
    /\ Formatted /\ Mapped /\ KindOfArg \in StringKinds \ {"url"} /\ arg.value = Str("")
       => ret.formatted = None
    /\ Parsed /\ Mapped /\ KindOfArg = "url" /\ arg.value = Str("")
       => ret.formatted = [url |-> None] /\ ret.parsed = None
    /\ Formatted /\ Mapped /\ KindOfArg = "number" /\ arg.value = Num(0)
       => ret.formatted = None

\* A list of two references came back from the round trip of a relation field.
C9_Witness ==
    /\ Parsed /\ Mapped /\ KindOfArg = "relation"
    /\ IsList(arg.value) /\ Len(arg.value.items) = 2
    /\ ret.parsed = arg.value

Queried == arg # None /\ arg.fn = "get_records" /\ ret # Pending

\* Whether a filter holds a FieldFilter on a field the integration does not map.
RECURSIVE HasUnmappedField(_, _)
HasUnmappedField(self, f) ==
    IF IsFieldFilter(f) THEN f.field \notin DOMAIN self.notion_mappings
    ELSE \E j \in 1..Len(f.filters) : HasUnmappedField(self, f.filters[j])

\* Whether nf is the native filter of FieldFilter f: keyed by the field's
\* Notion kind, and under it by the operator token.
IsNativeFieldFilter(self, nf, f) ==
    LET kind == self.notion_mappings[f.field]
    IN  /\ DOMAIN nf = {"property", kind}
        /\ nf["property"] = Str(f.field)
        /\ DOMAIN nf[kind] = {f.operator}
        /\ nf[kind][f.operator] = f.value

AndOfTwoMapped(self, f) ==
    /\ f # None
    /\ IsCompositeFilter(f)
    /\ f.operator = AND
    /\ Len(f.filters) = 2
    /\ \A j \in 1..2 : IsFieldFilter(f.filters[j])
    /\ ~HasUnmappedField(self, f)

\* C10: an AND of two FieldFilters is sent as {"and": [first, second]}, each
\* child the native filter of its FieldFilter; a filter that holds a
\* FieldFilter on an unmapped field raises "Unknown field" and no query is sent.
C10_FilterTranslation ==
    /\ Queried /\ AndOfTwoMapped(arg.self, arg.filter_params)
       => /\ Len(sent) = 1
          /\ "filter" \in DOMAIN sent[1]
          /\ DOMAIN sent[1].filter = {AND}
          /\ Len(sent[1].filter[AND]) = 2
          /\ \A j \in 1..2 :
                IsNativeFieldFilter(arg.self, sent[1].filter[AND][j],
                                    arg.filter_params.filters[j])
    /\ Queried /\ arg.filter_params # None /\ HasUnmappedField(arg.self, arg.filter_params)
       => /\ ret.returned = Raised("ValueError", "Unknown field")
          /\ sent = <<>>

\* The existence check of draft_first_contact was translated and sent.
C10_Witness ==
    /\ Queried
    /\ arg.self = emails_db
    /\ arg.filter_params = EmailFilter([id |-> Str("lead-1")])
    /\ Len(sent) = 1
    /\ sent[1].filter[AND][1]["relation"][CONTAINS] = Str("lead-1")
    /\ sent[1].filter[AND][2]["select"][EQUALS] = Str("first_contact")

\* C8 as stated: get_records returns every page of the database that
\* matches the filter (every page when there is no filter), each with its id.
C8_EveryMatchReturned ==
    Queried /\ ~IsError(ret.returned)
    => LET pgs == pages[arg.self.database_id]
           query_params == QueryParams(arg.self, arg.filter_params)
       IN  \A j \in 1..Len(pgs) :
               (arg.filter_params = None \/ Matches(pgs[j], query_params.filter))
               => \E r \in 1..Len(ret.returned.items) :
                      ret.returned.items[r]["id"] = pgs[j].id
(***************************************************************************)
(* Properties of the connection (checked under ConnSpec).                  *)
(***************************************************************************)
\* C11 as stated: every insert, update, archive or query request is sent by
\* an integration on which a handshake has succeeded, and an integration on
\* which no handshake has succeeded is not connected (holds no client), so
\* that its next call connects again.
C11_ConnectBeforeRequests ==
    /\ \A i \in 1..Len(sent) : sent[i].handshaken
    /\ \A db \in DatabaseType : ~handshaken[db] => client[db] = None
====
